---- MODULE Spec2Model ----
(***************************************************************************)
(* AudioLID.infer_language (src/audio_lid/audio_lid.py): load, find speech *)
(* segments (with one relaxed retry), optional debug dump, classify, and   *)
(* aggregate the per-segment predictions into a ranked language list.      *)
(*                                                                         *)
(* Scores and thresholds are kept in tenths (0.4 is 4, 0.7 is 7), so that  *)
(* the arithmetic is exact; a percentage is the exact fraction <<n, d>>.   *)
(***************************************************************************)
EXTENDS Integers, Sequences, FiniteSets

VARIABLES args, pc, ret, speech_list, calls, files, infer_calls,
          predictions, total_score, valid_count, language_score_map, returned

vars == <<args, pc, ret, speech_list, calls, files, infer_calls,
          predictions, total_score, valid_count, language_score_map, returned>>

\* ---------------------------------------------------------------- bounds
\* Largest speech_segment_count the configurations range over (and so the
\* largest number of segments one segmenter pass returns).
MaxSegments == 2

\* Language codes and classifier scores (tenths) the classifier may return.
Languages == {"eng", "fra"}
Scores == {3, 4, 6}
TopKValues == {2}
Thresholds == {5, 7}
Durations == {4, 5}
SegmenterErrors == {-1}
LoadResults == {-1, 0}

None == "None"

\* ------------------------------------------------------------- constants
ERROR_CODE_NO_VALID_LANGUAGE == -100
min_threshold == 4

\* ------------------------------------------------------------ primitives
Max(a, b) == IF a >= b THEN a ELSE b

SeqsUpTo(S, n) == UNION {[1..k -> S] : k \in 0..n}

\* The threshold and duration of the second segmenter pass.
RetryThreshold(threshold) == Max(threshold - 2, 4)
RetryDuration(duration) == Max(duration - 2, 3)

\* Variant: a first pass that found nothing is not retried.
ShouldRetryPositive(r, count) == 0 < r /\ r < count

\* The retry condition  0 <= ret < self.args.speech_segment_count.
ShouldRetry(r, count) == 0 <= r /\ r < count

\* Variant: the second pass is kept only when it found at least as much.
AfterRetryKeepMore(first, second) == IF second.ret < first.ret THEN first ELSE second

\* ret, speech_list = find_speech_list(...) of the second pass: both names are
\* rebound to what the second pass returned.
AfterRetry(first, second) == second

\* find_speech_list: a status and a segment list.  A negative status is a
\* failure; otherwise the status is the number of segments found, at most the
\* configured count.  A segment is identified by the pass that found it.
Segment(call, i) == [samples |-> <<call, i>>]

FindSpeechResults(call, count) ==
    {[ret |-> e, speech_list |-> <<>>] : e \in SegmenterErrors}
    \cup {[ret |-> n, speech_list |-> [i \in 1..n |-> Segment(call, i)]] : n \in 0..count}

\* language_identify.infer: one prediction list per buffer of the batch, in
\* batch order, each of at most top_k (language, score) pairs; the top-k
\* classes of one buffer are distinct languages, in any order of score.
Prediction == [language : Languages, score : Scores]

TopKLists(top_k) ==
    {l \in SeqsUpTo(Prediction, top_k) :
        \A i, j \in 1..Len(l) : i # j => l[i].language # l[j].language}

InferResults(batch, top_k) == [1..Len(batch) -> TopKLists(top_k)]

\* ------------------------------------------------------------ aggregation
\* predictions.items() / for language_str, score in prediction: the pairs in
\* iteration order.
RECURSIVE Flatten(_)
Flatten(preds) ==
    IF preds = <<>> THEN <<>>
    ELSE Head(preds) \o Flatten(Tail(preds))

InMap(map, language) == \E i \in 1..Len(map) : map[i].language = language

\* Variant: the language's entry is overwritten instead of accumulated.
MapAddOverwrite(map, language, score) ==
    IF \E i \in 1..Len(map) : map[i].language = language
    THEN [i \in 1..Len(map) |->
            IF map[i].language = language
            THEN [language |-> language, score |-> score]
            ELSE map[i]]
    ELSE Append(map, [language |-> language, score |-> score])

\* language_score_map[language_str] = language_total_score (a dict keeps the
\* position of a key that is already present, and appends a new key).
MapAdd(map, language, score) ==
    IF InMap(map, language)
    THEN [i \in 1..Len(map) |->
            IF map[i].language = language
            THEN [language |-> language, score |-> map[i].score + score]
            ELSE map[i]]
    ELSE Append(map, [language |-> language, score |-> score])

\* Variant: a score equal to the floor is discarded too.
SkippedAtFloor(score) == score <= 4

\* The filter of the loop body.
Skipped(score) == score < min_threshold

\* Variant: total_score is accumulated before the filter.
AggStepTotalBeforeFilter(acc, p) ==
    IF Skipped(p.score) THEN [acc EXCEPT !.total_score = @ + p.score]
    ELSE [valid_count |-> acc.valid_count + 1,
          total_score |-> acc.total_score + p.score,
          language_score_map |-> MapAdd(acc.language_score_map, p.language, p.score)]

\* Variant: valid_count is incremented only for a language not yet in the map.
AggStepCountLanguages(acc, p) ==
    IF Skipped(p.score) THEN acc
    ELSE [valid_count |-> IF InMap(acc.language_score_map, p.language)
                          THEN acc.valid_count ELSE acc.valid_count + 1,
          total_score |-> acc.total_score + p.score,
          language_score_map |-> MapAdd(acc.language_score_map, p.language, p.score)]

\* One iteration of the inner loop.
AggStep(acc, p) ==
    IF Skipped(p.score) THEN acc
    ELSE [valid_count |-> acc.valid_count + 1,
          total_score |-> acc.total_score + p.score,
          language_score_map |-> MapAdd(acc.language_score_map, p.language, p.score)]

RECURSIVE AggLoop(_, _)
AggLoop(acc, pairs) ==
    IF pairs = <<>> THEN acc
    ELSE AggLoop(AggStep(acc, Head(pairs)), Tail(pairs))

AggInit == [valid_count |-> 0, total_score |-> 0, language_score_map |-> <<>>]

\* float(score * 100 / total_score), as an exact fraction.
Percentage(score, total) == <<score * 100, total>>

FracLess(a, b) == a[1] * b[2] < b[1] * a[2]
FracEq(a, b) == a[1] * b[2] = b[1] * a[2]

ResultList(map, total) ==
    [i \in 1..Len(map) |->
        [language |-> map[i].language, percentage |-> Percentage(map[i].score, total)]]

\* Variant: an ascending sort that is then reversed, which reverses ties.
InsertDescBeforeTies(sorted, e) ==
    LET k == Cardinality({i \in 1..Len(sorted) :
                            FracLess(e.percentage, sorted[i].percentage)})
    IN  SubSeq(sorted, 1, k) \o <<e>> \o SubSeq(sorted, k + 1, Len(sorted))

\* sorted(result_list, key=percentage, reverse=True): a stable sort, so that
\* entries of equal percentage keep their relative order.
InsertDesc(sorted, e) ==
    LET k == Cardinality({i \in 1..Len(sorted) :
                            ~FracLess(sorted[i].percentage, e.percentage)})
    IN  SubSeq(sorted, 1, k) \o <<e>> \o SubSeq(sorted, k + 1, Len(sorted))

RECURSIVE SortedDesc(_)
SortedDesc(list) ==
    IF list = <<>> THEN <<>>
    ELSE InsertDesc(SortedDesc(SubSeq(list, 1, Len(list) - 1)), list[Len(list)])

\* Variant: an empty map yields an empty list instead of the error code.
AggReturnEmptyList(acc) ==
    [ret |-> acc.valid_count,
     list |-> SortedDesc(ResultList(acc.language_score_map, acc.total_score))]

\* The return of the aggregation.
AggReturn(acc) ==
    IF Len(acc.language_score_map) = 0
    THEN [ret |-> ERROR_CODE_NO_VALID_LANGUAGE, list |-> None]
    ELSE [ret |-> acc.valid_count,
          list |-> SortedDesc(ResultList(acc.language_score_map, acc.total_score))]

\* ------------------------------------------------------------------ debug
\* The files of the debug dump: one wav per segment and the two manifests.
DebugFiles(list) ==
    {<<"index.wav", i>> : i \in 1..Len(list)}
    \cup {<<"manifest.tsv", Len(list)>>, <<"manifest.lang", Len(list)>>}

\* Variant: the dump is skipped only for a status of zero.
DebugDumpsNonZero(debug, r) == debug /\ r # 0

DebugDumps(debug, r) == debug /\ r > 0

\* ------------------------------------------------------------------ state
Init ==
    /\ args \in [debug : BOOLEAN,
                 speech_segment_count : 0..MaxSegments,
                 speech_segment_duration : Durations,
                 speech_score_threshold : Thresholds,
                 top_k : TopKValues]
    /\ pc = "load"
    /\ ret = 0
    /\ speech_list = <<>>
    /\ calls = <<>>
    /\ files = {}
    /\ infer_calls = <<>>
    /\ predictions = <<>>
    /\ total_score = 0
    /\ valid_count = 0
    /\ language_score_map = <<>>
    /\ returned = None

\* ret, samples = load_audio_samples(audio_file); a failure exits the process.
LoadAudio ==
    /\ pc = "load"
    /\ \E r \in LoadResults :
        /\ ret' = r
        /\ pc' = IF r < 0 THEN "exit" ELSE "find"
    /\ UNCHANGED <<args, speech_list, calls, files, infer_calls, predictions,
                   total_score, valid_count, language_score_map, returned>>

\* The first find_speech_list pass, with the configured parameters.
FindSpeech ==
    /\ pc = "find"
    /\ \E res \in FindSpeechResults(1, args.speech_segment_count) :
        /\ ret' = res.ret
        /\ speech_list' = res.speech_list
        /\ calls' = Append(calls, [threshold |-> args.speech_score_threshold,
                                   duration |-> args.speech_segment_duration,
                                   ret |-> res.ret,
                                   speech_list |-> res.speech_list])
    /\ pc' = "retry"
    /\ UNCHANGED <<args, files, infer_calls, predictions,
                   total_score, valid_count, language_score_map, returned>>

\* if 0 <= ret < count: the second pass, with the relaxed parameters.
Retry ==
    /\ pc = "retry"
    /\ ShouldRetry(ret, args.speech_segment_count)
    /\ \E res \in FindSpeechResults(2, args.speech_segment_count) :
        /\ ret' = AfterRetry([ret |-> ret, speech_list |-> speech_list], res).ret
        /\ speech_list' = AfterRetry([ret |-> ret, speech_list |-> speech_list], res).speech_list
        /\ calls' = Append(calls, [threshold |-> RetryThreshold(args.speech_score_threshold),
                                   duration |-> RetryDuration(args.speech_segment_duration),
                                   ret |-> res.ret,
                                   speech_list |-> res.speech_list])
    /\ pc' = "debug"
    /\ UNCHANGED <<args, files, infer_calls, predictions,
                   total_score, valid_count, language_score_map, returned>>

NoRetry ==
    /\ pc = "retry"
    /\ ~ShouldRetry(ret, args.speech_segment_count)
    /\ pc' = "debug"
    /\ UNCHANGED <<args, ret, speech_list, calls, files, infer_calls, predictions,
                   total_score, valid_count, language_score_map, returned>>

\* if self.args.debug: if ret > 0: write the segments and the manifests.
DebugDump ==
    /\ pc = "debug"
    /\ DebugDumps(args.debug, ret)
    /\ files' = DebugFiles(speech_list)
    /\ pc' = "check"
    /\ UNCHANGED <<args, ret, speech_list, calls, infer_calls, predictions,
                   total_score, valid_count, language_score_map, returned>>

NoDebugDump ==
    /\ pc = "debug"
    /\ ~DebugDumps(args.debug, ret)
    /\ pc' = "check"
    /\ UNCHANGED <<args, ret, speech_list, calls, files, infer_calls, predictions,
                   total_score, valid_count, language_score_map, returned>>

\* Variant: a status of zero is treated as a failure too.
SegmenterFailedOrEmpty(r) == r <= 0

\* if ret < 0: return ret, None
SegmenterFailed(r) == r < 0

ReturnSegmenterError ==
    /\ pc = "check"
    /\ SegmenterFailed(ret)
    /\ returned' = [ret |-> ret, list |-> None]
    /\ pc' = "done"
    /\ UNCHANGED <<args, ret, speech_list, calls, files, infer_calls, predictions,
                   total_score, valid_count, language_score_map>>

\* The batch handed to the classifier.
InferBatch(list) == [i \in 1..Len(list) |-> list[i].samples]

\* predictions = self.language_identify.infer([...])
Classify ==
    /\ pc = "check"
    /\ ~SegmenterFailed(ret)
    /\ infer_calls' = Append(infer_calls, InferBatch(speech_list))
    /\ predictions' \in InferResults(InferBatch(speech_list), args.top_k)
    /\ pc' = "aggregate"
    /\ UNCHANGED <<args, ret, speech_list, calls, files,
                   total_score, valid_count, language_score_map, returned>>

\* The aggregation loop, the normalisation, the sort and the return.
Aggregate ==
    /\ pc = "aggregate"
    /\ LET acc == AggLoop(AggInit, Flatten(predictions))
       IN  /\ total_score' = acc.total_score
           /\ valid_count' = acc.valid_count
           /\ language_score_map' = acc.language_score_map
           /\ returned' = AggReturn(acc)
    /\ pc' = "done"
    /\ UNCHANGED <<args, ret, speech_list, calls, files, infer_calls, predictions>>

Next ==
    \/ LoadAudio
    \/ FindSpeech
    \/ Retry
    \/ NoRetry
    \/ DebugDump
    \/ NoDebugDump
    \/ ReturnSegmenterError
    \/ Classify
    \/ Aggregate

Spec == Init /\ [][Next]_vars

\* ------------------------------------------------------------ properties
\* What the properties say about a prediction batch, computed from the batch
\* itself and not by the aggregation loop.
Pairs == UNION {{<<s, i>> : i \in 1..Len(predictions[s])} : s \in 1..Len(predictions)}

ScoreAt(q) == predictions[q[1]][q[2]].score
LanguageAt(q) == predictions[q[1]][q[2]].language

\* The pairs that are not below 0.4, and those strictly above it.
AtLeastFloor == {q \in Pairs : ScoreAt(q) >= 4}
AboveFloor == {q \in Pairs : ScoreAt(q) > 4}
AtLeastFloorOf(L) == {q \in AtLeastFloor : LanguageAt(q) = L}

RECURSIVE SumScores(_)
SumScores(S) ==
    IF S = {} THEN 0
    ELSE LET q == CHOOSE x \in S : TRUE
         IN  ScoreAt(q) + SumScores(S \ {q})

\* Batch order: segments in batch order, predictions in list order.
Earlier(q, r) == q[1] < r[1] \/ (q[1] = r[1] /\ q[2] < r[2])

\* L is met before M in the batch, counting every pair / only the pairs that
\* pass the filter.
MetFirst(L, M) ==
    \E q \in Pairs : /\ LanguageAt(q) = L
                     /\ \A r \in Pairs : LanguageAt(r) = M => Earlier(q, r)
PassedFirst(L, M) ==
    \E q \in AtLeastFloor : /\ LanguageAt(q) = L
                            /\ \A r \in AtLeastFloor : LanguageAt(r) = M => Earlier(q, r)

Returned == pc = "done"
ReturnedList == pc = "done" /\ returned.list # None
LastCall == calls[Len(calls)]

FracAdd(a, b) == <<a[1] * b[2] + b[1] * a[2], a[2] * b[2]>>

RECURSIVE SumPercentages(_)
SumPercentages(list) ==
    IF list = <<>> THEN <<0, 1>>
    ELSE FracAdd(Head(list).percentage, SumPercentages(Tail(list)))

\* C1: whenever infer_language returns a language list, the percentages of
\* the list sum to 100.
C1_PercentagesSumTo100 ==
    ReturnedList =>
        /\ Len(returned.list) >= 1
        /\ \A i \in 1..Len(returned.list) : returned.list[i].percentage[2] > 0
        /\ SumPercentages(returned.list)[1] = 100 * SumPercentages(returned.list)[2]

C1_Witness ==
    /\ ReturnedList
    /\ Len(returned.list) = 2
    /\ Pairs # AtLeastFloor
    /\ ~FracEq(returned.list[1].percentage, returned.list[2].percentage)

\* C2: find_speech_list is invoked a second time iff the first status c has
\* 0 <= c < target count; the second invocation gets max(threshold - 0.2, 0.4)
\* and max(duration - 2, 3); it is never invoked more than twice.
C2_RetryPolicy ==
    /\ Len(calls) <= 2
    /\ pc \in {"debug", "check", "aggregate", "done"} =>
         (Len(calls) = 2 <=>
            (0 <= calls[1].ret /\ calls[1].ret < args.speech_segment_count))
    /\ Len(calls) >= 1 =>
         /\ calls[1].threshold = args.speech_score_threshold
         /\ calls[1].duration = args.speech_segment_duration
    /\ Len(calls) = 2 =>
         /\ 0 <= calls[1].ret /\ calls[1].ret < args.speech_segment_count
         /\ calls[2].threshold = (IF args.speech_score_threshold - 2 >= 4
                                  THEN args.speech_score_threshold - 2 ELSE 4)
         /\ calls[2].duration = (IF args.speech_segment_duration - 2 >= 3
                                 THEN args.speech_segment_duration - 2 ELSE 3)

C2_Witness ==
    /\ Returned
    /\ Len(calls) = 2
    /\ calls[1].ret = 0
    /\ calls[2].ret = 0
    /\ calls[2].threshold = 4
    /\ calls[2].duration = 3

\* C3: with at least one score that passes the filter, each language L of the
\* list has percentage 100 * (sum of L's scores not below 0.4) / (sum of all
\* scores not below 0.4), each such language appears exactly once, and a
\* language whose every score is below 0.4 does not appear.
C3_PercentageFormula ==
    (Returned /\ AtLeastFloor # {}) =>
        /\ returned.list # None
        /\ \A L \in Languages :
             LET at == {i \in 1..Len(returned.list) : returned.list[i].language = L}
             IN  IF AtLeastFloorOf(L) = {} THEN at = {}
                 ELSE /\ Cardinality(at) = 1
                      /\ \A i \in at :
                           returned.list[i].percentage[1] * SumScores(AtLeastFloor)
                             = 100 * SumScores(AtLeastFloorOf(L))
                                   * returned.list[i].percentage[2]

C3_Witness ==
    /\ ReturnedList
    /\ Len(returned.list) = 1
    /\ Cardinality(AtLeastFloor) = 2
    /\ Cardinality(Pairs) = 3
    /\ Len(predictions) = 2

\* C4: if every score of the prediction batch is below 0.4, infer_language
\* returns NO_VALID_LANGUAGE with None, never a list.
C4_AllBelowFloor ==
    (Returned /\ infer_calls # <<>> /\ \A q \in Pairs : ScoreAt(q) < 4) =>
        returned = [ret |-> ERROR_CODE_NO_VALID_LANGUAGE, list |-> None]

C4_Witness ==
    /\ Returned
    /\ infer_calls # <<>>
    /\ Cardinality(Pairs) >= 2
    /\ \A q \in Pairs : ScoreAt(q) < 4

\* C5 as stated: no list is returned iff no pair exceeded 0.4 (strictly).
C5_Original ==
    (Returned /\ infer_calls # <<>>) => (returned.list = None <=> AboveFloor = {})

\* C5 as amended: no list is returned iff no pair reached 0.4, a score equal to
\* 0.4 counting as valid.
C5_EmptyIffNoneAtLeastFloor ==
    (Returned /\ infer_calls # <<>>) => (returned.list = None <=> AtLeastFloor = {})

C5_Witness ==
    /\ ReturnedList
    /\ Pairs # {}
    /\ \A q \in Pairs : ScoreAt(q) = 4

\* C6: when a list is returned, the status is the number of (segment,
\* language) pairs that passed the filter, not the number of languages.
C6_StatusIsValidCount ==
    ReturnedList =>
        /\ returned.ret = Cardinality(AtLeastFloor)
        /\ returned.ret >= Len(returned.list)

C6_Witness ==
    /\ ReturnedList
    /\ Len(returned.list) = 1
    /\ returned.ret = 2
    /\ Len(predictions) = 2

\* C7: a negative segmenter status is returned with None, the classifier is
\* never invoked and no debug file is written.
C7_NegativeStatusShortCircuits ==
    (calls # <<>> /\ LastCall.ret < 0) =>
        /\ infer_calls = <<>>
        /\ files = {}
        /\ predictions = <<>>
        /\ pc \in {"retry", "debug", "check", "done"}
        /\ pc = "done" => returned = [ret |-> LastCall.ret, list |-> None]

C7_Witness ==
    /\ Returned
    /\ args.debug
    /\ Len(calls) = 2
    /\ calls[1].ret > 0
    /\ LastCall.ret < 0

\* C8: zero segments after the last pass is not a segmenter failure: the
\* classifier gets an empty batch or is not invoked, and the call returns
\* NO_VALID_LANGUAGE with None.
C8_ZeroSegments ==
    (Returned /\ LastCall.ret = 0 /\ LastCall.speech_list = <<>>) =>
        /\ returned = [ret |-> ERROR_CODE_NO_VALID_LANGUAGE, list |-> None]
        /\ infer_calls \in {<<>>, << <<>> >>}
        /\ files = {}

C8_Witness ==
    /\ Returned
    /\ Len(calls) = 2
    /\ calls[1].ret = 0
    /\ calls[2].ret = 0
    /\ args.debug

\* The list is in descending order of percentage.
Descending(list) ==
    \A i, j \in 1..Len(list) :
        i < j => ~FracLess(list[i].percentage, list[j].percentage)

\* C9 as stated: descending, and languages of equal percentage in the order
\* in which they were first met in the batch.
C9_Original ==
    ReturnedList =>
        /\ Descending(returned.list)
        /\ \A i, j \in 1..Len(returned.list) :
             (i < j /\ FracEq(returned.list[i].percentage, returned.list[j].percentage))
                => MetFirst(returned.list[i].language, returned.list[j].language)

\* C9 as amended: descending, and languages of equal percentage in the order
\* in which they first passed the 0.4 filter.
C9_DescendingStable ==
    ReturnedList =>
        /\ Descending(returned.list)
        /\ \A i, j \in 1..Len(returned.list) :
             (i < j /\ FracEq(returned.list[i].percentage, returned.list[j].percentage))
                => PassedFirst(returned.list[i].language, returned.list[j].language)

C9_Witness ==
    /\ ReturnedList
    /\ Len(returned.list) = 2
    /\ FracEq(returned.list[1].percentage, returned.list[2].percentage)
    /\ MetFirst(returned.list[2].language, returned.list[1].language)

\* C10: after a retry the second pass replaces the first: status and segment
\* list are those of the second pass, the classifier gets only second-pass
\* segments, and a negative second status is returned with None.
C10_SecondPassReplacesFirst ==
    Len(calls) = 2 =>
        /\ ret = calls[2].ret
        /\ speech_list = calls[2].speech_list
        /\ \A i \in 1..Len(speech_list) : speech_list[i].samples[1] = 2
        /\ infer_calls # <<>> =>
             /\ Len(infer_calls) = 1
             /\ Len(infer_calls[1]) = calls[2].ret
             /\ \A i \in 1..Len(infer_calls[1]) :
                  infer_calls[1][i] = calls[2].speech_list[i].samples
             /\ Len(predictions) = calls[2].ret
        /\ files # {} => Cardinality(files) = calls[2].ret + 2
        /\ (pc = "done" /\ calls[2].ret < 0) =>
             returned = [ret |-> calls[2].ret, list |-> None]

C10_Witness ==
    /\ Returned
    /\ Len(calls) = 2
    /\ calls[1].ret > 0
    /\ calls[2].ret < 0
    /\ returned = [ret |-> calls[2].ret, list |-> None]

====
